---- MODULE Spec2Model ----
(***************************************************************************)
(* Model of thonny_openai_gpt: the release script publish_to_pypi.py and   *)
(* the plugin entry module __init__.py.                                    *)
(*                                                                         *)
(* Text is a sequence of atoms.  An atom is a one-character string, or one *)
(* of the words "version", "Version", "Metadata-", "Name" that the regular *)
(* expressions of the script match literally or that only ever occur       *)
(* whole.  Python's None is the value None below; it is no text, because   *)
(* "NONE" is not an atom.                                                  *)
(***************************************************************************)
EXTENDS Integers, Sequences, FiniteSets, TLC

\* ------------------------------------------------------------- bounds
MaxVerLen == 5      \* longest version text handed to increment_version alone
MaxChunks == 2      \* chunks of a metadata file handed to the file functions alone
MaxEggs == 2        \* *.egg-info entries handed to check_egg_info_version alone
MaxMainEggs == 1    \* *.egg-info entries in the working directory of a run of main
MaxLoads == 3       \* calls of load() the host makes

\* ------------------------------------------------------------- state
VARIABLES
    \* the release script, one run of main
    pc,               \* where main stands: start, confirm, ask_test, build, ask_retry, upload, exited
    setup_py,         \* text of setup.py, or Missing
    pyproject_toml,   \* text of pyproject.toml, or Missing
    build_dir,        \* whether the directory build exists
    dist_dir,         \* whether the directory dist exists
    eggs,             \* the *.egg-info entries of the working directory, in os.listdir order
    current_version,
    new_version,
    use_test_pypi,
    ans_confirm,      \* what the user typed at the version prompt, or None
    ans_retry,        \* what the user typed at the continue prompt, or None
    build_tool,       \* how the build tool ended: none, ok, nonzero, module_missing
    upload_tool,      \* how the upload tool ended: none, ok, nonzero, not_installed
    build_ret,        \* what build_package gave: none, True, False
    upload_ret,       \* what upload_to_pypi gave: none, True, False, raised
    egg_ok,           \* what check_egg_info_version returned in main: none, True, False
    trace,            \* the destructive steps main has taken, in order
    output,           \* the messages printed
    exit_code,        \* the exit status of the process, or -1 while it runs
    uncaught,         \* the exception that ended the process, or none
    \* the plugin entry module
    loader_pc,        \* import1, import2, ready, import_failed
    sys_path,         \* whether plugin_dir is in sys.path, and how many times
    gpt_load_plugin,  \* unbound, function, or None
    log,              \* what the module printed
    host_saw,         \* per call of load() by the host: returned, or the exception it saw
    \* a function of the script called on its own
    fn, fn_in, fn_out

main_vars == <<pc, setup_py, pyproject_toml, build_dir, dist_dir, eggs, current_version,
               new_version, use_test_pypi, ans_confirm, ans_retry, build_tool, upload_tool,
               build_ret, upload_ret, egg_ok, trace, output, exit_code, uncaught>>
loader_vars == <<loader_pc, sys_path, gpt_load_plugin, log, host_saw>>
fn_vars == <<fn, fn_in, fn_out>>
vars == <<main_vars, loader_vars, fn_vars>>

\* ------------------------------------------------------------- text
None == <<"NONE">>
Quote == "\""
Digits == <<"0", "1", "2", "3", "4", "5", "6", "7", "8", "9">>
DigitSet == {Digits[i] : i \in 1..10}
DigitsDot == DigitSet \cup {"."}

Min(S) == CHOOSE x \in S : \A y \in S : x <= y

DigitVal(c) == (CHOOSE i \in 1..10 : Digits[i] = c) - 1

\* str(n) for n >= 0
RECURSIVE IntToStr(_)
IntToStr(n) == IF n < 10 THEN <<Digits[n + 1]>>
               ELSE IntToStr(n \div 10) \o <<Digits[(n % 10) + 1]>>

\* int(s) for a text of decimal digits; the caller has checked IsIntText(s)
RECURSIVE StrToInt(_)
StrToInt(s) == IF Len(s) = 0 THEN 0
               ELSE StrToInt(SubSeq(s, 1, Len(s) - 1)) * 10 + DigitVal(s[Len(s)])

\* the texts over the model's atoms that int() accepts; int() raises ValueError on the rest
IsIntText(s) == Len(s) > 0 /\ \A i \in 1..Len(s) : s[i] \in DigitSet

\* s.split(sep): the parts of s between the occurrences of the atom sep
RECURSIVE Split(_, _)
Split(s, sep) ==
    LET hits == {i \in 1..Len(s) : s[i] = sep}
    IN IF hits = {} THEN <<s>>
       ELSE LET i == Min(hits)
            IN <<SubSeq(s, 1, i - 1)>> \o Split(SubSeq(s, i + 1, Len(s)), sep)

\* sep.join(parts)
RECURSIVE Join(_, _)
Join(parts, sep) ==
    IF Len(parts) = 0 THEN <<>>
    ELSE IF Len(parts) = 1 THEN parts[1]
    ELSE parts[1] \o <<sep>> \o Join(Tail(parts), sep)

HasPrefixAt(s, i, p) ==
    /\ i + Len(p) - 1 <= Len(s)
    /\ \A k \in 1..Len(p) : s[i + k - 1] = p[k]

\* ------------------------------------------------------------- increment_version
ValueError == <<"ValueError">>

\* a plausible slip: the last component is rewritten without being increased
increment_version_NoBump(version) ==
    IF version = None \/ version = <<>> THEN <<"0", ".", "1", ".", "0">>
    ELSE LET parts == Split(version, ".")
             n == Len(parts)
         IN IF n >= 3
            THEN IF IsIntText(parts[n])
                 THEN Join([parts EXCEPT ![n] = IntToStr(StrToInt(parts[n]))], ".")
                 ELSE ValueError
            ELSE Join(Append(parts, <<"1">>), ".")

increment_version(version) ==
    IF version = None \/ version = <<>> THEN <<"0", ".", "1", ".", "0">>
    ELSE LET parts == Split(version, ".")
             n == Len(parts)
         IN IF n >= 3
            THEN IF IsIntText(parts[n])
                 THEN Join([parts EXCEPT ![n] = IntToStr(StrToInt(parts[n]) + 1)], ".")
                 ELSE ValueError
            ELSE Join(Append(parts, <<"1">>), ".")

\* ------------------------------------------------------------- regular expressions
NoMatch == [found |-> FALSE, start |-> 0, stop |-> 0, group |-> <<>>]

\* a match of  prefix([^"]+)"  starting exactly at i, the prefix ending in the opening quote
QuotedMatchAt(s, i, prefix) ==
    LET first == i + Len(prefix)
        closing == {j \in first..Len(s) : s[j] = Quote}
    IN IF HasPrefixAt(s, i, prefix) /\ closing # {} /\ Min(closing) > first
       THEN [found |-> TRUE, start |-> i, stop |-> Min(closing),
             group |-> SubSeq(s, first, Min(closing) - 1)]
       ELSE NoMatch

\* re.search from position from: the leftmost match
QuotedSearchFrom(s, from, prefix) ==
    LET at == {i \in from..Len(s) : QuotedMatchAt(s, i, prefix).found}
    IN IF at = {} THEN NoMatch ELSE QuotedMatchAt(s, Min(at), prefix)

QuotedSearch(s, prefix) == QuotedSearchFrom(s, 1, prefix)

\* re.sub: every non-overlapping match, left to right, replaced by repl
RECURSIVE QuotedSubFrom(_, _, _, _)
QuotedSubFrom(s, from, prefix, repl) ==
    LET m == QuotedSearchFrom(s, from, prefix)
    IN IF ~m.found THEN SubSeq(s, from, Len(s))
       ELSE SubSeq(s, from, m.start - 1) \o repl \o QuotedSubFrom(s, m.stop + 1, prefix, repl)

QuotedSub(s, prefix, repl) == QuotedSubFrom(s, 1, prefix, repl)

SetupPrefix == <<"version", "=", Quote>>                  \* version="
PyprojectPrefix == <<"version", " ", "=", " ", Quote>>    \* version = "
PkgInfoPrefix == <<"Version", ":", " ">>                  \* Version: 

\* a match of  Version: ([\d\.]+)  starting exactly at i
PkgInfoMatchAt(s, i) ==
    LET first == i + Len(PkgInfoPrefix)
        ends == {j \in first..Len(s) : \A k \in first..j : s[k] \in DigitsDot}
    IN IF HasPrefixAt(s, i, PkgInfoPrefix) /\ ends # {}
       THEN LET last == CHOOSE j \in ends : \A k \in ends : k <= j
            IN [found |-> TRUE, start |-> i, stop |-> last, group |-> SubSeq(s, first, last)]
       ELSE NoMatch

PkgInfoSearch(s) ==
    LET at == {i \in 1..Len(s) : PkgInfoMatchAt(s, i).found}
    IN IF at = {} THEN NoMatch ELSE PkgInfoMatchAt(s, Min(at))

\* ------------------------------------------------------------- get_current_version
\* what the function returns and whether it printed the warning
\* a plausible slip: pyproject.toml wins when the two disagree
get_current_version_PreferPyproject(setup_content, pyproject_content) ==
    LET sm == QuotedSearch(setup_content, SetupPrefix)
        pm == QuotedSearch(pyproject_content, PyprojectPrefix)
        setup_version == IF sm.found THEN sm.group ELSE None
        pyproject_version == IF pm.found THEN pm.group ELSE None
    IN IF setup_version # None /\ pyproject_version # None /\ setup_version # pyproject_version
       THEN [ret |-> pyproject_version, warned |-> TRUE]
       ELSE [ret |-> IF pyproject_version # None THEN pyproject_version ELSE setup_version,
             warned |-> FALSE]

get_current_version(setup_content, pyproject_content) ==
    LET sm == QuotedSearch(setup_content, SetupPrefix)
        pm == QuotedSearch(pyproject_content, PyprojectPrefix)
        setup_version == IF sm.found THEN sm.group ELSE None
        pyproject_version == IF pm.found THEN pm.group ELSE None
    IN IF setup_version # None /\ pyproject_version # None /\ setup_version # pyproject_version
       THEN [ret |-> setup_version, warned |-> TRUE]
       ELSE [ret |-> IF setup_version # None THEN setup_version ELSE pyproject_version,
             warned |-> FALSE]

\* ------------------------------------------------------------- update_version_in_files
SetupName == <<"setup.py">>
PyprojectName == <<"pyproject.toml">>

\* the two files after the call and the list the call returns
\* a plausible slip: a file is listed whenever it holds a declaration, changed or not
update_version_in_files_ListMatched(setup_content, pyproject_content, new_ver) ==
    LET new_setup == QuotedSub(setup_content, SetupPrefix,
                               SetupPrefix \o new_ver \o <<Quote>>)
        new_pyproject == QuotedSub(pyproject_content, PyprojectPrefix,
                                   PyprojectPrefix \o new_ver \o <<Quote>>)
    IN [setup |-> new_setup,
        pyproject |-> new_pyproject,
        files_updated |->
            (IF QuotedSearch(setup_content, SetupPrefix).found THEN SetupName ELSE <<>>)
            \o (IF QuotedSearch(pyproject_content, PyprojectPrefix).found
                THEN PyprojectName ELSE <<>>)]

update_version_in_files(setup_content, pyproject_content, new_ver) ==
    LET new_setup == QuotedSub(setup_content, SetupPrefix,
                               SetupPrefix \o new_ver \o <<Quote>>)
        new_pyproject == QuotedSub(pyproject_content, PyprojectPrefix,
                                   PyprojectPrefix \o new_ver \o <<Quote>>)
    IN [setup |-> new_setup,
        pyproject |-> new_pyproject,
        files_updated |->
            (IF new_setup # setup_content THEN SetupName ELSE <<>>)
            \o (IF new_pyproject # pyproject_content THEN PyprojectName ELSE <<>>)]

\* ------------------------------------------------------------- check_egg_info_version
\* A directory entry whose name ends in .egg-info: a directory or a plain file,
\* and the text of its PKG-INFO (None when there is no such file).
\* The result: what the function returns and whether it printed the warning.
RECURSIVE check_egg_info_version(_, _)
check_egg_info_version(egg_dirs, new_ver) ==
    IF Len(egg_dirs) = 0 THEN [ret |-> TRUE, warned |-> FALSE]
    ELSE LET pkg_info == egg_dirs[1].pkg_info
             m == IF pkg_info = None THEN NoMatch ELSE PkgInfoSearch(pkg_info)
         IN IF m.found /\ m.group # new_ver
            THEN [ret |-> FALSE, warned |-> TRUE]
            ELSE check_egg_info_version(Tail(egg_dirs), new_ver)

\* ------------------------------------------------------------- inputs
Missing == <<"MISSING">>
V123 == <<"1", ".", "2", ".", "3">>
V124 == <<"1", ".", "2", ".", "4">>
V129 == <<"1", ".", "2", ".", "9">>
V12 == <<"1", ".", "2">>
V12x == <<"1", ".", "2", ".", "x">>

TightDecl(v) == SetupPrefix \o v \o <<Quote>>          \* version="v"
SpacedDecl(v) == PyprojectPrefix \o v \o <<Quote>>     \* version = "v"
OtherText == <<"x", "\n">>

ChunksOf(versions) ==
    {TightDecl(v) : v \in versions} \cup {SpacedDecl(v) : v \in versions} \cup {OtherText}

\* the texts made of at most n chunks
RECURSIVE TextsUpTo(_, _)
TextsUpTo(chunks, n) ==
    IF n = 0 THEN {<<>>}
    ELSE LET shorter == TextsUpTo(chunks, n - 1)
         IN shorter \cup {c \o t : c \in chunks, t \in shorter}

\* PKG-INFO as the build tool writes it, as a bare Version line, and without one
FullPkgInfo(v) == <<"Metadata-", "Version", ":", " ", "2", ".", "1", "\n",
                    "Name", ":", " ", "x", "\n", "Version", ":", " ">> \o v \o <<"\n">>
BarePkgInfo(v) == <<"Version", ":", " ">> \o v \o <<"\n">>
NoVersionPkgInfo == <<"Name", ":", " ", "x", "\n">>

PkgInfos(versions) ==
    {FullPkgInfo(v) : v \in versions} \cup {BarePkgInfo(v) : v \in versions}
        \cup {NoVersionPkgInfo}

EggEntries(versions) ==
    {[kind |-> "dir", pkg_info |-> p] : p \in PkgInfos(versions) \cup {None}}
        \cup {[kind |-> "file", pkg_info |-> None]}

RECURSIVE SeqsUpTo(_, _)
SeqsUpTo(S, n) ==
    IF n = 0 THEN {<<>>}
    ELSE LET shorter == SeqsUpTo(S, n - 1)
         IN shorter \cup {<<x>> \o t : x \in S, t \in shorter}

\* what a user types at a prompt
Answers == {<<"y">>, <<"Y">>, <<"n">>, <<>>, <<"y", "e", "s">>}

\* str.lower()
LowerAtom(c) == IF c = "Y" THEN "y" ELSE IF c = "N" THEN "n" ELSE c
Lower(s) == [i \in 1..Len(s) |-> LowerAtom(s[i])]

\* ------------------------------------------------------------- external tools
BuildOutcomes == {"ok", "nonzero", "module_missing"}
UploadOutcomes == {"ok", "nonzero", "not_installed"}

\* a plausible slip: the failure of the tool is swallowed
build_package_IgnoreFailure(tool) == "True"

\* python -m build: the interpreter always starts, and a missing build module is a
\* non-zero exit of it; check=True turns every non-zero exit into CalledProcessError
build_package(tool) == IF tool = "ok" THEN "True" ELSE "False"

\* a plausible slip: the failure of the tool is swallowed
upload_to_pypi_IgnoreFailure(tool) == IF tool = "not_installed" THEN "raised" ELSE "True"

\* twine upload: a non-zero exit is CalledProcessError, caught; an executable that
\* cannot be launched is FileNotFoundError, which the function does not catch
upload_to_pypi(tool) ==
    IF tool = "ok" THEN "True"
    ELSE IF tool = "nonzero" THEN "False"
    ELSE "raised"

\* a plausible slip: the workflow goes on whatever the user typed
Confirmed_Always(answer) == TRUE

\* confirm != 'y' after .lower(), for the version prompt and the continue prompt
Confirmed(answer) == Lower(answer) = <<"y">>

\* a plausible slip: the continue prompt is ignored
RetryConfirmed_Always(answer) == TRUE

RetryConfirmed(answer) == Lower(answer) = <<"y">>

\* ------------------------------------------------------------- main
MainVersions == {V123, V129, V12x}
MainTexts == TextsUpTo(ChunksOf(MainVersions), 1) \cup {Missing}
MainEggs == SeqsUpTo(EggEntries({V123, V124}), MaxMainEggs)

FsNow == <<setup_py, pyproject_toml, build_dir, dist_dir, eggs>>

MainInit ==
    /\ pc = "start"
    /\ setup_py \in MainTexts
    /\ pyproject_toml \in MainTexts
    /\ build_dir \in BOOLEAN
    /\ dist_dir \in BOOLEAN
    /\ eggs \in MainEggs
    /\ current_version = None
    /\ new_version = None
    /\ use_test_pypi = FALSE
    /\ ans_confirm = None
    /\ ans_retry = None
    /\ build_tool = "none"
    /\ upload_tool = "none"
    /\ build_ret = "none"
    /\ upload_ret = "none"
    /\ egg_ok = "none"
    /\ trace = <<>>
    /\ output = {}
    /\ exit_code = -1
    /\ uncaught = "none"

\* main returns code and sys.exit passes it on
Return(code) ==
    /\ pc' = "exited"
    /\ exit_code' = code
    /\ uncaught' = "none"

\* an exception leaves main; the interpreter prints the traceback and exits with status 1
Raise(exception) ==
    /\ pc' = "exited"
    /\ exit_code' = 1
    /\ uncaught' = exception

\* lines 136-152: the existence check, get_current_version, increment_version
MainStart ==
    /\ UNCHANGED <<loader_vars, fn_vars>>
    /\ pc = "start"
    /\ IF setup_py = Missing \/ pyproject_toml = Missing
       THEN /\ output' = output \cup {"missing_files"}
            /\ Return(1)
            /\ UNCHANGED <<current_version, new_version>>
       ELSE LET got == get_current_version(setup_py, pyproject_toml)
                next == increment_version(got.ret)
            IN /\ current_version' = got.ret
               /\ output' = output \cup (IF got.warned THEN {"version_warning"} ELSE {})
               /\ IF next = ValueError
                  THEN /\ Raise("ValueError")
                       /\ UNCHANGED new_version
                  ELSE /\ new_version' = next
                       /\ pc' = "confirm"
                       /\ UNCHANGED <<exit_code, uncaught>>
    /\ UNCHANGED <<setup_py, pyproject_toml, build_dir, dist_dir, eggs, use_test_pypi,
                   ans_confirm, ans_retry, build_tool, upload_tool, build_ret, upload_ret,
                   egg_ok, trace>>

\* lines 155-172: the version prompt, clean_build_directories, update_version_in_files
AnswerConfirm(answer) ==
    /\ UNCHANGED <<loader_vars, fn_vars>>
    /\ pc = "confirm"
    /\ ans_confirm' = answer
    /\ IF ~Confirmed(answer)
       THEN /\ output' = output \cup {"cancelled"}
            /\ Return(0)
            /\ UNCHANGED <<setup_py, pyproject_toml, build_dir, dist_dir, eggs, trace>>
       ELSE LET upd == update_version_in_files(setup_py, pyproject_toml, new_version)
            IN /\ build_dir' = FALSE
               /\ dist_dir' = FALSE
               /\ eggs' = <<>>
               /\ setup_py' = upd.setup
               /\ pyproject_toml' = upd.pyproject
               /\ trace' = trace \o <<"clean", "rewrite">>
               /\ IF upd.files_updated = <<>>
                  THEN /\ output' = output \cup {"no_update"}
                       /\ Return(1)
                  ELSE /\ output' = output \cup {"updated"}
                       /\ pc' = "ask_test"
                       /\ UNCHANGED <<exit_code, uncaught>>
    /\ UNCHANGED <<current_version, new_version, use_test_pypi, ans_retry, build_tool,
                   upload_tool, build_ret, upload_ret, egg_ok>>

\* line 175: the test index prompt
AnswerTest(answer) ==
    /\ UNCHANGED <<loader_vars, fn_vars>>
    /\ pc = "ask_test"
    /\ use_test_pypi' = (Lower(answer) = <<"y">>)
    /\ pc' = "build"
    /\ UNCHANGED <<setup_py, pyproject_toml, build_dir, dist_dir, eggs, current_version,
                   new_version, ans_confirm, ans_retry, build_tool, upload_tool, build_ret,
                   upload_ret, egg_ok, trace, output, exit_code, uncaught>>

\* lines 178-183: build_package, then check_egg_info_version on what the tool left.
\* The tool is outside the repository: on success it leaves dist and any egg-info
\* entries; on failure it leaves the working directory as it found it.
Build(tool, made) ==
    /\ UNCHANGED <<loader_vars, fn_vars>>
    /\ pc = "build"
    /\ build_tool' = tool
    /\ build_ret' = build_package(tool)
    /\ trace' = Append(trace, "build")
    /\ IF build_package(tool) = "False"
       THEN /\ made = eggs
            /\ output' = output \cup {"build_failed"}
            /\ Return(1)
            /\ UNCHANGED <<dist_dir, eggs, egg_ok>>
       ELSE LET chk == check_egg_info_version(made, new_version)
            IN /\ dist_dir' = TRUE
               /\ eggs' = made
               /\ egg_ok' = IF chk.ret THEN "True" ELSE "False"
               /\ output' = output \cup (IF chk.warned THEN {"egg_warning"} ELSE {})
               /\ pc' = IF chk.ret THEN "upload" ELSE "ask_retry"
               /\ UNCHANGED <<exit_code, uncaught>>
    /\ UNCHANGED <<setup_py, pyproject_toml, build_dir, current_version, new_version,
                   use_test_pypi, ans_confirm, ans_retry, upload_tool, upload_ret>>

\* lines 184-187: the continue prompt
AnswerRetry(answer) ==
    /\ UNCHANGED <<loader_vars, fn_vars>>
    /\ pc = "ask_retry"
    /\ ans_retry' = answer
    /\ IF ~RetryConfirmed(answer)
       THEN /\ output' = output \cup {"cancelled"}
            /\ Return(1)
       ELSE /\ pc' = "upload"
            /\ UNCHANGED <<output, exit_code, uncaught>>
    /\ UNCHANGED <<setup_py, pyproject_toml, build_dir, dist_dir, eggs, current_version,
                   new_version, use_test_pypi, ans_confirm, build_tool, upload_tool,
                   build_ret, upload_ret, egg_ok, trace>>

\* lines 190-195: upload_to_pypi and the final report
Upload(tool) ==
    /\ UNCHANGED <<loader_vars, fn_vars>>
    /\ pc = "upload"
    /\ upload_tool' = tool
    /\ upload_ret' = upload_to_pypi(tool)
    /\ trace' = Append(trace, "upload")
    /\ IF upload_to_pypi(tool) = "raised"
       THEN /\ Raise("FileNotFoundError")
            /\ UNCHANGED output
       ELSE IF upload_to_pypi(tool) = "False"
       THEN /\ output' = output \cup {"upload_failed"}
            /\ Return(1)
       ELSE /\ output' = output \cup {"success"}
            /\ Return(0)
    /\ UNCHANGED <<setup_py, pyproject_toml, build_dir, dist_dir, eggs, current_version,
                   new_version, use_test_pypi, ans_confirm, ans_retry, build_tool, build_ret,
                   egg_ok>>

MainNext ==
    \/ MainStart
    \/ \E answer \in Answers : AnswerConfirm(answer)
    \/ \E answer \in Answers : AnswerTest(answer)
    \/ \E tool \in BuildOutcomes, made \in MainEggs : Build(tool, made)
    \/ \E answer \in Answers : AnswerRetry(answer)
    \/ \E tool \in UploadOutcomes : Upload(tool)

\* ------------------------------------------------------------- the plugin entry module
ImportOutcomes == {"ok", "ImportError", "SyntaxError"}
\* Python's hierarchy: RuntimeError derives from Exception; SystemExit and
\* KeyboardInterrupt derive from BaseException alone
ExceptionClasses == {"RuntimeError"}
BaseOnlyClasses == {"SystemExit", "KeyboardInterrupt"}
PluginOutcomes == {"returns"} \cup ExceptionClasses \cup BaseOnlyClasses

\* a plausible slip: the call is made outside any try
load_NoBoundary(plugin, outcome) ==
    IF plugin = "None" THEN [plugin |-> "not_called", host |-> "returned", printed |-> FALSE]
    ELSE IF outcome = "returns" THEN [plugin |-> outcome, host |-> "returned", printed |-> FALSE]
    ELSE [plugin |-> outcome, host |-> outcome, printed |-> FALSE]

\* load(): what the plugin's load function did, what the host saw, whether load printed
load(plugin, outcome) ==
    IF plugin = "None" THEN [plugin |-> "not_called", host |-> "returned", printed |-> FALSE]
    ELSE IF outcome = "returns" THEN [plugin |-> outcome, host |-> "returned", printed |-> FALSE]
    ELSE IF outcome \in ExceptionClasses
    THEN [plugin |-> outcome, host |-> "returned", printed |-> TRUE]
    ELSE [plugin |-> outcome, host |-> outcome, printed |-> FALSE]

LoaderInit ==
    /\ loader_pc = "import1"
    /\ sys_path \in {0, 1}
    /\ gpt_load_plugin = "unbound"
    /\ log = <<>>
    /\ host_saw = <<>>

\* lines 10-17: the search path, then the absolute import
Import1(outcome) ==
    /\ UNCHANGED <<main_vars, fn_vars>>
    /\ loader_pc = "import1"
    /\ sys_path' = IF sys_path = 0 THEN 1 ELSE sys_path
    /\ IF outcome = "ok"
       THEN /\ gpt_load_plugin' = "thonny_openai_gpt.gpt_tool.load_plugin"
            /\ loader_pc' = "ready"
       ELSE IF outcome = "ImportError"
       THEN /\ loader_pc' = "import2"
            /\ UNCHANGED gpt_load_plugin
       ELSE /\ loader_pc' = "import_raised"
            /\ UNCHANGED gpt_load_plugin
    /\ UNCHANGED <<log, host_saw>>

\* lines 18-23: the relative import
Import2(outcome) ==
    /\ UNCHANGED <<main_vars, fn_vars>>
    /\ loader_pc = "import2"
    /\ IF outcome = "ok"
       THEN /\ gpt_load_plugin' = ".gpt_tool.load_plugin"
            /\ loader_pc' = "ready"
            /\ UNCHANGED log
       ELSE IF outcome = "ImportError"
       THEN /\ gpt_load_plugin' = "None"
            /\ loader_pc' = "ready"
            /\ log' = Append(log, "import_failed")
       ELSE /\ loader_pc' = "import_raised"
            /\ UNCHANGED <<gpt_load_plugin, log>>
    /\ UNCHANGED <<sys_path, host_saw>>

\* lines 25-33: the host calls load()
HostLoad(outcome) ==
    /\ UNCHANGED <<main_vars, fn_vars>>
    /\ loader_pc = "ready"
    /\ Len(host_saw) < MaxLoads
    /\ LET r == load(gpt_load_plugin, outcome)
       IN /\ host_saw' = Append(host_saw, [plugin |-> r.plugin, host |-> r.host])
          /\ log' = IF r.printed THEN Append(log, "load_failed") ELSE log
    /\ UNCHANGED <<loader_pc, sys_path, gpt_load_plugin>>

LoaderNext ==
    \/ \E outcome \in ImportOutcomes : Import1(outcome)
    \/ \E outcome \in ImportOutcomes : Import2(outcome)
    \/ \E outcome \in PluginOutcomes : HostLoad(outcome)

\* ------------------------------------------------------------- functions called alone
IncAtoms == {"0", "1", "2", "9", ".", "x"}
VersionInputs == SeqsUpTo(IncAtoms, MaxVerLen)
\* to either file's pattern a declaration in the other file's style is plain text
FileChunks == {TightDecl(V123), TightDecl(V12), SpacedDecl(V123), SpacedDecl(V12)}
FileTexts == TextsUpTo(FileChunks, MaxChunks)
NewVersions == {V124, V129}
EggInputs == SeqsUpTo(EggEntries({V123, V124}), MaxEggs)

FnIdle ==
    /\ fn = "idle"
    /\ fn_in = <<>>
    /\ fn_out = <<>>

CallIncrementVersion ==
    /\ fn = "increment_version_called"
    /\ fn' = "increment_version"
    /\ fn_out' = <<increment_version(fn_in[1])>>
    /\ UNCHANGED <<fn_in, main_vars, loader_vars>>

CallGetCurrentVersion ==
    /\ setup_py # Missing /\ pyproject_toml # Missing
    /\ LET got == get_current_version(setup_py, pyproject_toml)
       IN /\ fn' = "get_current_version"
          /\ fn_in' = <<setup_py, pyproject_toml>>
          /\ fn_out' = <<got.ret, got.warned>>
    /\ UNCHANGED <<main_vars, loader_vars>>

CallUpdateVersionInFiles(new_ver) ==
    /\ setup_py # Missing /\ pyproject_toml # Missing
    /\ LET upd == update_version_in_files(setup_py, pyproject_toml, new_ver)
       IN /\ fn' = "update_version_in_files"
          /\ fn_in' = <<setup_py, pyproject_toml, new_ver>>
          /\ fn_out' = <<upd.files_updated>>
          /\ setup_py' = upd.setup
          /\ pyproject_toml' = upd.pyproject
    /\ UNCHANGED <<pc, build_dir, dist_dir, eggs, current_version, new_version,
                   use_test_pypi, ans_confirm, ans_retry, build_tool, upload_tool, build_ret,
                   upload_ret, egg_ok, trace, output, exit_code, uncaught, loader_vars>>

CallCheckEggInfoVersion ==
    /\ fn = "check_egg_info_version_called"
    /\ LET chk == check_egg_info_version(eggs, fn_in[1])
       IN /\ fn' = "check_egg_info_version"
          /\ fn_out' = <<chk.ret, chk.warned>>
    /\ UNCHANGED <<fn_in, main_vars, loader_vars>>

\* ------------------------------------------------------------- specifications
MainIdle ==
    /\ pc = "exited"
    /\ setup_py = Missing
    /\ pyproject_toml = Missing
    /\ build_dir = FALSE
    /\ dist_dir = FALSE
    /\ eggs = <<>>
    /\ current_version = None
    /\ new_version = None
    /\ use_test_pypi = FALSE
    /\ ans_confirm = None
    /\ ans_retry = None
    /\ build_tool = "none"
    /\ upload_tool = "none"
    /\ build_ret = "none"
    /\ upload_ret = "none"
    /\ egg_ok = "none"
    /\ trace = <<>>
    /\ output = {}
    /\ exit_code = -1
    /\ uncaught = "none"

LoaderIdle ==
    /\ loader_pc = "not_imported"
    /\ sys_path = 0
    /\ gpt_load_plugin = "unbound"
    /\ log = <<>>
    /\ host_saw = <<>>

\* a run of the release script
Init == MainInit /\ LoaderIdle /\ FnIdle
Next == MainNext
Spec == Init /\ [][Next]_vars


\* the plugin module imported and called by the host
LoaderSpecInit == MainIdle /\ LoaderInit /\ FnIdle
LoaderSpecNext == LoaderNext
LoaderSpec == LoaderSpecInit /\ [][LoaderSpecNext]_vars

\* increment_version on every version text
IncrementInit ==
    /\ MainIdle /\ LoaderIdle
    /\ fn = "increment_version_called"
    /\ fn_in \in {<<v>> : v \in VersionInputs \cup {None}}
    /\ fn_out = <<>>
IncrementNext == CallIncrementVersion
IncrementSpec == IncrementInit /\ [][IncrementNext]_vars

\* get_current_version and update_version_in_files on every pair of files
FilesInit ==
    /\ pc = "exited"
    /\ setup_py \in FileTexts
    /\ pyproject_toml \in FileTexts
    /\ build_dir = FALSE
    /\ dist_dir = FALSE
    /\ eggs = <<>>
    /\ current_version = None
    /\ new_version = None
    /\ use_test_pypi = FALSE
    /\ ans_confirm = None
    /\ ans_retry = None
    /\ build_tool = "none"
    /\ upload_tool = "none"
    /\ build_ret = "none"
    /\ upload_ret = "none"
    /\ egg_ok = "none"
    /\ trace = <<>>
    /\ output = {}
    /\ exit_code = -1
    /\ uncaught = "none"
    /\ LoaderIdle /\ FnIdle
FilesNext ==
    \/ CallGetCurrentVersion
    \/ \E new_ver \in NewVersions : CallUpdateVersionInFiles(new_ver)
FilesSpec == FilesInit /\ [][FilesNext]_vars

\* check_egg_info_version on every working directory
EggInit ==
    /\ pc = "exited"
    /\ setup_py = Missing
    /\ pyproject_toml = Missing
    /\ build_dir = FALSE
    /\ dist_dir = FALSE
    /\ eggs \in EggInputs
    /\ current_version = None
    /\ new_version = None
    /\ use_test_pypi = FALSE
    /\ ans_confirm = None
    /\ ans_retry = None
    /\ build_tool = "none"
    /\ upload_tool = "none"
    /\ build_ret = "none"
    /\ upload_ret = "none"
    /\ egg_ok = "none"
    /\ trace = <<>>
    /\ output = {}
    /\ exit_code = -1
    /\ uncaught = "none"
    /\ LoaderIdle
    /\ fn = "check_egg_info_version_called"
    /\ fn_in \in {<<v>> : v \in {V123, V124}}
    /\ fn_out = <<>>
EggNext == CallCheckEggInfoVersion
EggSpec == EggInit /\ [][EggNext]_vars

\* ------------------------------------------------------------- claims
\* what the user typed is the letter y, in either case
TypedYes(answer) == answer \in {<<"y">>, <<"Y">>}
ToolFailed(tool) == tool \in {"nonzero", "module_missing", "not_installed"}
Exited == pc = "exited"
Destructive == <<"clean", "rewrite", "build", "upload">>
IsPrefix(s, t) == Len(s) <= Len(t) /\ s = SubSeq(t, 1, Len(s))

\* C1: whenever the build tool or the upload tool fails, by a non-zero exit or by not
\* being installed, the failure is caught: the function returns False, the failure
\* message is printed, and main exits with code 1 without an uncaught exception.
C1_ToolFailuresCaught ==
    /\ ToolFailed(build_tool) =>
          /\ build_ret = "False"
          /\ "build_failed" \in output
          /\ Exited /\ exit_code = 1 /\ uncaught = "none"
    /\ ToolFailed(upload_tool) =>
          /\ upload_ret = "False"
          /\ "upload_failed" \in output
          /\ Exited /\ exit_code = 1 /\ uncaught = "none"

\* C2 as stated: every call of load() returns normally to the host.
C2_LoadAlwaysReturns ==
    \A i \in 1..Len(host_saw) : host_saw[i].host = "returned"

\* C2 as amended: load() returns normally when no feature module was resolved
\* (without calling anything), when the plugin's load function returns, and when it
\* raises an exception derived from Exception, which is then printed; an exception
\* derived from BaseException alone (SystemExit, KeyboardInterrupt) reaches the host.
C2_LoadContainsExceptions ==
    /\ \A i \in 1..Len(host_saw) :
          /\ host_saw[i].plugin \in {"not_called", "returns"} \cup ExceptionClasses
                => host_saw[i].host = "returned"
          /\ host_saw[i].plugin \in BaseOnlyClasses => host_saw[i].host = host_saw[i].plugin
          /\ gpt_load_plugin = "None" <=> host_saw[i].plugin = "not_called"
    /\ Cardinality({i \in 1..Len(log) : log[i] = "load_failed"})
          = Cardinality({i \in 1..Len(host_saw) : host_saw[i].plugin \in ExceptionClasses})

C2_Witness ==
    \E i \in 1..Len(host_saw) :
        /\ host_saw[i].plugin \in ExceptionClasses
        /\ host_saw[i].host = "returned"
        /\ "load_failed" \in {log[k] : k \in 1..Len(log)}

\* C3: once the build tool has ended with a non-zero exit, main has reported the
\* failure and exited with code 1, and the upload was never attempted.
C3_FailedBuildNoUpload ==
    build_tool \in {"nonzero", "module_missing"} =>
        /\ Exited /\ exit_code = 1
        /\ "build_failed" \in output
        /\ upload_tool = "none"
        /\ upload_ret = "none"
        /\ \A i \in 1..Len(trace) : trace[i] # "upload"

C3_Witness ==
    /\ build_tool = "nonzero"
    /\ Exited
    /\ trace = <<"clean", "rewrite", "build">>

\* C4 as stated: after the check found a mismatch, any answer other than y to the
\* continue prompt ends main with code 1 without an upload, and an upload after a
\* mismatch means the user typed y.
C4_DeclineMeansNoUpload ==
    /\ (egg_ok = "False" /\ ans_retry # None /\ ans_retry # <<"y">>) =>
          (Exited /\ exit_code = 1 /\ upload_tool = "none")
    /\ (egg_ok = "False" /\ upload_tool # "none") => ans_retry = <<"y">>

\* C4 as amended: the answer is compared after lower-casing, so the answers that let
\* the upload go on after a mismatch are y and Y; every other answer ends main with
\* code 1 without an upload.
C4_DeclineIgnoringCase ==
    /\ (egg_ok = "False" /\ ans_retry # None /\ ~TypedYes(ans_retry)) =>
          (Exited /\ exit_code = 1 /\ upload_tool = "none" /\ "cancelled" \in output)
    /\ (egg_ok = "False" /\ (upload_tool # "none" \/ pc = "upload")) => TypedYes(ans_retry)
    /\ (egg_ok = "False" /\ TypedYes(ans_retry)) => (pc = "upload" \/ upload_tool # "none")

C4_Witness ==
    /\ egg_ok = "False"
    /\ ans_retry = <<"n">>
    /\ Exited /\ exit_code = 1
    /\ "egg_warning" \in output

\* the exit code main ends with, by what happened in the run
C5_ExitCodes ==
    Exited =>
        /\ exit_code \in {0, 1}
        /\ exit_code = 0 <=> \/ (ans_confirm # None /\ ~TypedYes(ans_confirm))
                             \/ upload_tool = "ok"
        /\ (setup_py = Missing \/ pyproject_toml = Missing) => exit_code = 1
        /\ "no_update" \in output => exit_code = 1
        /\ ToolFailed(build_tool) => exit_code = 1
        /\ ToolFailed(upload_tool) => exit_code = 1
        /\ (ans_retry # None /\ ~TypedYes(ans_retry)) => exit_code = 1

\* main has no loop: every step moves it to a later stage, so a run in which each
\* prompt is answered and each tool ends is over after at most six steps
StageRank(stage) ==
    CASE stage = "start" -> 0
      [] stage = "confirm" -> 1
      [] stage = "ask_test" -> 2
      [] stage = "build" -> 3
      [] stage = "ask_retry" -> 4
      [] stage = "upload" -> 5
      [] stage = "exited" -> 6

\* C5: every run of main ends, with exit code 0 or 1; the code is 0 exactly when
\* the user cancelled at the version prompt or the upload succeeded, and it is 1 when
\* a metadata file is missing, no file was updated, the build failed, the upload
\* failed, or the user declined after the mismatch warning.
C5_ExitCodesAndTermination ==
    [](C5_ExitCodes) /\ [][StageRank(pc') > StageRank(pc)]_vars

C5_Witness ==
    /\ Exited
    /\ exit_code = 0
    /\ upload_tool = "ok"
    /\ "success" \in output

\* the reference rule, read off the text of a version
DotsOf(s) == {i \in 1..Len(s) : s[i] = "."}
ComponentCount(s) == Cardinality(DotsOf(s)) + 1
AfterLastDot(s) ==
    IF DotsOf(s) = {} THEN s
    ELSE SubSeq(s, (CHOOSE i \in DotsOf(s) : \A j \in DotsOf(s) : j <= i) + 1, Len(s))
UpToLastDot(s) == SubSeq(s, 1, Len(s) - Len(AfterLastDot(s)))
AllDigits(s) == Len(s) > 0 /\ \A i \in 1..Len(s) : s[i] \in DigitSet
RECURSIVE Pow10(_)
Pow10(k) == IF k = 0 THEN 1 ELSE 10 * Pow10(k - 1)
RECURSIVE SumOver(_, _)
SumOver(s, i) == IF i > Len(s) THEN 0 ELSE DigitVal(s[i]) * Pow10(Len(s) - i) + SumOver(s, i + 1)
DecimalValue(s) == SumOver(s, 1)
IntegerComponents(s) ==
    /\ Len(s) > 0
    /\ \A i \in 1..Len(s) : s[i] \in DigitsDot
    /\ s[1] # "." /\ s[Len(s)] # "."
    /\ \A i \in 1..(Len(s) - 1) : ~(s[i] = "." /\ s[i + 1] = ".")

\* C6: increment_version follows the reference rule: None and the empty text give
\* 0.1.0; a version of three or more components, each a non-negative integer, gives
\* the same components with the last one greater by exactly one, without carry; a
\* version of fewer than three components gives the input followed by .1
C6_IncrementRule ==
    fn = "increment_version" =>
        LET version == fn_in[1]
            result == fn_out[1]
        IN /\ (version = None \/ version = <<>>) => result = <<"0", ".", "1", ".", "0">>
           /\ (version # None /\ IntegerComponents(version) /\ ComponentCount(version) >= 3) =>
                 /\ result # ValueError
                 /\ ComponentCount(result) = ComponentCount(version)
                 /\ UpToLastDot(result) = UpToLastDot(version)
                 /\ AllDigits(AfterLastDot(result))
                 /\ DecimalValue(AfterLastDot(result)) = DecimalValue(AfterLastDot(version)) + 1
           /\ (version # None /\ version # <<>> /\ ComponentCount(version) < 3) =>
                 result = version \o <<".", "1">>

C6_Witness ==
    /\ fn = "increment_version"
    /\ fn_in[1] = V129
    /\ fn_out[1] = <<"1", ".", "2", ".", "1", "0">>

\* C7: get_current_version returns the setup.py version and warns when both files
\* declare a version and the two differ, the common version when they agree, the
\* only declared version when one file declares none, and None when neither
\* declares one; it leaves both files as they were.
C7_CurrentVersion ==
    fn = "get_current_version" =>
        LET in_setup == QuotedSearch(fn_in[1], SetupPrefix)
            in_pyproject == QuotedSearch(fn_in[2], PyprojectPrefix)
            ret == fn_out[1]
            warned == fn_out[2]
        IN /\ (in_setup.found /\ in_pyproject.found /\ in_setup.group # in_pyproject.group)
                 => (ret = in_setup.group /\ warned)
           /\ (in_setup.found /\ in_pyproject.found /\ in_setup.group = in_pyproject.group)
                 => (ret = in_setup.group /\ ~warned)
           /\ (in_setup.found /\ ~in_pyproject.found) => (ret = in_setup.group /\ ~warned)
           /\ (~in_setup.found /\ in_pyproject.found) => (ret = in_pyproject.group /\ ~warned)
           /\ (~in_setup.found /\ ~in_pyproject.found) => (ret = None /\ ~warned)
           /\ setup_py = fn_in[1]
           /\ pyproject_toml = fn_in[2]

C7_Witness ==
    /\ fn = "get_current_version"
    /\ fn_out[2] = TRUE
    /\ fn_out[1] = V123
    /\ QuotedSearch(pyproject_toml, PyprojectPrefix).group = V12

\* one call of update_version_in_files, seen as a step
ListedIn(name, list) == \E i \in 1..Len(list) : list[i] = name[1]

C8_Step ==
    fn' = "update_version_in_files" =>
        /\ ListedIn(SetupName, fn_out'[1]) <=> setup_py' # setup_py
        /\ ListedIn(PyprojectName, fn_out'[1]) <=> pyproject_toml' # pyproject_toml
        /\ (fn = "update_version_in_files" /\ fn_in[3] = fn_in'[3]) =>
              /\ setup_py' = setup_py
              /\ pyproject_toml' = pyproject_toml
              /\ fn_out'[1] = <<>>

\* C8: update_version_in_files is idempotent and reports what it changed: a call
\* that directly follows a call with the same new version changes neither file and
\* returns the empty list, and the list a call returns holds setup.py exactly when
\* the call changed setup.py and pyproject.toml exactly when it changed that file.
C8_UpdateIdempotent == [][C8_Step]_vars

\* the second of two calls with 1.2.4: no file of the inputs holds 1.2.4 at the start
C8_Witness ==
    /\ fn = "update_version_in_files"
    /\ fn_in[3] = V124
    /\ fn_out[1] = <<>>
    /\ QuotedSearch(fn_in[1], SetupPrefix).found
    /\ QuotedSearch(fn_in[1], SetupPrefix).group = V124
    /\ QuotedSearch(fn_in[2], PyprojectPrefix).found
    /\ setup_py = fn_in[1]

\* the Version field of PKG-INFO: the line that starts with "Version: "
VersionFieldAt(text, i) ==
    /\ HasPrefixAt(text, i, PkgInfoPrefix)
    /\ (i = 1 \/ text[i - 1] = "\n")
VersionFieldValue(text, i) ==
    LET first == i + Len(PkgInfoPrefix)
        ends == {j \in first..Len(text) : text[j] = "\n"}
    IN SubSeq(text, first, IF ends = {} THEN Len(text) ELSE Min(ends) - 1)
EmbeddedVersionDiffers(entry, version) ==
    /\ entry.kind = "dir"
    /\ entry.pkg_info # None
    /\ \E i \in 1..Len(entry.pkg_info) :
          /\ VersionFieldAt(entry.pkg_info, i)
          /\ VersionFieldValue(entry.pkg_info, i) # <<>>
          /\ VersionFieldValue(entry.pkg_info, i) # version

\* C9: check_egg_info_version returns False, with a warning, exactly when some
\* *.egg-info directory holds a PKG-INFO whose embedded version, the value of its
\* Version field, is found and differs from the new version; otherwise True.
C9_FalseIffEmbeddedVersionDiffers ==
    fn = "check_egg_info_version" =>
        /\ fn_out[1] = FALSE <=> \E i \in 1..Len(eggs) : EmbeddedVersionDiffers(eggs[i], fn_in[1])
        /\ fn_out[2] = ~fn_out[1]

\* a step of main, with y alone taken as the confirmation
C10_StepAsStated ==
    /\ ans_confirm' # <<"y">> =>
          /\ FsNow' = FsNow
          /\ build_tool' = "none" /\ upload_tool' = "none"
          /\ trace' = <<>>
    /\ IsPrefix(trace', Destructive)

\* C10 as stated: while the answer to the version prompt is not y, the metadata
\* files and the build artifacts stay as they are and no tool is invoked; the
\* destructive steps happen in the order cleanup, rewrite, build, upload.
C10_NothingBeforeY == [][C10_StepAsStated]_vars

\* a step of main, with y and Y taken as the confirmation
C10_StepIgnoringCase ==
    /\ ~TypedYes(ans_confirm') =>
          /\ FsNow' = FsNow
          /\ build_tool' = "none" /\ upload_tool' = "none"
          /\ trace' = <<>>
    /\ (setup_py = Missing \/ pyproject_toml = Missing) =>
          /\ FsNow' = FsNow
          /\ build_tool' = "none" /\ upload_tool' = "none"
          /\ trace' = <<>>
    /\ IsPrefix(trace', Destructive)

\* C10 as amended: the answer is lower-cased before the comparison, so the
\* confirmation is y or Y; until one of them is typed (and when a metadata file is
\* missing) the files and the artifacts stay as they are and no tool is invoked, and
\* the destructive steps happen in the order cleanup, rewrite, build, upload.
C10_NothingBeforeConfirmation == [][C10_StepIgnoringCase]_vars

C10_Witness ==
    /\ Exited
    /\ ans_confirm = <<"n">>
    /\ exit_code = 0
    /\ build_dir /\ dist_dir /\ eggs # <<>>
    /\ QuotedSearch(setup_py, SetupPrefix).found

====
